---- MODULE Spec2Model ----
(***************************************************************************)
(* Maze mini-game of the cognitive game series (components/maze-game.tsx): *)
(* the maze generator, the breadth-first path finder, the path-deviation   *)
(* metric and the MazeGame component's handlers.                           *)
(*                                                                         *)
(* Conventions.                                                            *)
(*  - A grid is a function maze[y][x] over 0..n-1, as the source's         *)
(*    string[][] is indexed.                                               *)
(*  - A JavaScript string is a sequence of one-character strings, so that  *)
(*    the `${x},${y}` keys are built, not assumed injective.               *)
(*  - MAZE_SIZE is 21 in the source (line 44).  21 is out of reach of an   *)
(*    exhaustive search, so it is a parameter of the model: a variable     *)
(*    that Init draws from a bounded set of odd sizes and that no action   *)
(*    changes.                                                             *)
(*  - A ratio of the Metrics record is kept as [num, den], the two         *)
(*    operands of the source's division.                                   *)
(***************************************************************************)
EXTENDS Integers, Sequences, FiniteSets, TLC

(* ------------------------------ bounds -------------------------------- *)
\* SpecGen generates mazes of the odd sides 5 .. 2*MaxHalfGen+1.
MaxHalfGen == 3
\* Spec plays mazes of the odd sides 5 .. 2*MaxHalfGame+1.
MaxHalfGame == 2
\* SpecFind applies findOptimalPath to every grid of side 2 .. MaxGridSide.
MaxGridSide == 3
\* Move attempts handled while playing, over the life of the component.
MaxAttempts == 6
\* The episode's time budget in timer ticks (60 in the source, lines 214, 329).
MaxTime == 2
\* Completion callbacks scheduled by setTimeout and not yet run.
MaxPending == 1
\* SpecDev applies calculatePathDeviation to paths of at most this length.
MaxPathLen == 3
\* Episodes (calls of startGame) over the life of the component.
MaxEpisodes == 2
\* Scores a mini-game reports to the series are drawn from 0 .. MaxScore.
MaxScore == 1
\* Calls of handleGameComplete over the life of the series.
MaxCallbacks == 7
\* Completion callbacks of mini-games scheduled by setTimeout and not yet run.
MaxScheduled == 1
\* The time budget of the disk-transfer puzzle in timer ticks (60 in the
\* source, lines 98 and 173 of tower-of-hanoi.tsx).
MaxHanoiTime == 2
\* Tower clicks handled over the life of the puzzle component.
MaxClicks == 14

(* ------------------------- program constants -------------------------- *)
PLAYER == "P"
WALL == "#"
EXIT == "E"
PATH == " "

VARIABLES
  MAZE_SIZE,        \* the side length (line 44), a parameter of the model
  genFor,           \* which caller generateMaze is running for: "none", "mount", "start"
  genMaze,          \* generateMaze's local `maze`
  carveStack,       \* the active carvePath calls, innermost last
  mounted,          \* whether the MazeGame component is mounted
  maze, playerPos, gameState, timeLeft,
  moveCount, wallCollisions, backtrackCount, movementHistory,
  visitedCells, movePatterns, firstHalfMetrics, heatmap,
  optimalPath, actualPath, pathDeviation,
  pending,          \* the setTimeout(onComplete, 500) callbacks not yet run
  lastMetrics,      \* the Metrics record of the latest onComplete call
  completions,      \* how many times onComplete has been called
  steps,            \* move attempts handled since the initial state (bounded by MaxAttempts)
  episode,          \* startGame calls so far: the number of the current episode
  grid, findStart, findEnd, findResult,   \* findOptimalPath applied to an input
  devOptimal, devActual, devResult,       \* calculatePathDeviation applied to an input
  userData,         \* GameSeries: whether the user form has been submitted
  currentGame, totalScore, gameScores, gameStates,
  phase,            \* the game state of the mini-game on screen: "ready", "playing", "over"
  score,            \* the `score` state of the mini-game on screen
  scheduled,        \* the setTimeout(onComplete, 500) callbacks of mini-games not yet run
  callbacks,        \* how many times handleGameComplete has been called
  hanoiState,       \* TowerOfHanoi: its gameState
  towers,
  selectedTower,    \* <<>> for null, <<i>> for tower i
  moves, invalidMoves, movePattern,
  hanoiTimeLeft,    \* TowerOfHanoi: its timeLeft
  clicks            \* tower clicks handled since the initial state (bounded by MaxClicks)

genVars == <<genFor, genMaze, carveStack>>
recorderVars == <<playerPos, moveCount, wallCollisions, backtrackCount, movementHistory,
                  visitedCells, movePatterns, firstHalfMetrics, heatmap, actualPath>>
gameVars == <<mounted, maze, gameState, timeLeft, optimalPath, pathDeviation>>
outVars == <<pending, lastMetrics, completions, steps, episode>>
findVars == <<grid, findStart, findEnd, findResult>>
devVars == <<devOptimal, devActual, devResult>>
seriesVars == <<userData, currentGame, totalScore, gameScores, gameStates, phase, score,
                scheduled, callbacks>>
hanoiVars == <<hanoiState, towers, selectedTower, moves, invalidMoves, movePattern,
               hanoiTimeLeft, clicks>>
vars == <<MAZE_SIZE, genVars, recorderVars, gameVars, outVars, findVars, devVars, seriesVars,
          hanoiVars>>

(* ------------------------------ helpers ------------------------------- *)
Point(px, py) == [x |-> px, y |-> py]

\* Array.from({length: n}, () => Array(n).fill(WALL))
AllWalls(n) == [y \in 0 .. n - 1 |-> [x \in 0 .. n - 1 |-> WALL]]

\* maze[y][x] = v
SetCell(m, x, y, v) == [m EXCEPT ![y][x] = v]

Digits == <<"0", "1", "2", "3", "4", "5", "6", "7", "8", "9">>

RECURSIVE Decimal(_)
\* The decimal digits of a natural number, most significant first.
Decimal(n) == IF n < 10 THEN <<Digits[n + 1]>> ELSE Decimal(n \div 10) \o <<Digits[(n % 10) + 1]>>

\* Number-to-string conversion of a template literal, for integers.
NumToString(n) == IF n < 0 THEN <<"-">> \o Decimal(0 - n) ELSE Decimal(n)

\* A plausible slip: the separator left out of the template.
KeyNoSeparator(x, y) == NumToString(x) \o NumToString(y)

\* `${x},${y}`
Key(x, y) == NumToString(x) \o <<",">> \o NumToString(y)

(* --------------------------- generateMaze ----------------------------- *)
\* The four two-step directions of carvePath, before the shuffle.
carveDirections == {[dx |-> 0, dy |-> -2], [dx |-> 0, dy |-> 2], [dx |-> -2, dy |-> 0], [dx |-> 2, dy |-> 0]}

\* A plausible slip: the wall between is tested in place of the target cell.
CarveAllowedTestsWallBetween(m, x, y, dx, dy) ==
  LET newX == x + dx
      newY == y + dy
  IN  /\ newX > 0 /\ newX < MAZE_SIZE - 1 /\ newY > 0 /\ newY < MAZE_SIZE - 1
      /\ m[y + dy \div 2][x + dx \div 2] = WALL

\* A plausible slip: the guard tests the bounds only, not that the target
\* cell is still a Wall.
CarveAllowedBoundsOnly(m, x, y, dx, dy) ==
  LET newX == x + dx
      newY == y + dy
  IN  newX > 0 /\ newX < MAZE_SIZE - 1 /\ newY > 0 /\ newY < MAZE_SIZE - 1

\* A plausible slip: an off-by-one in the upper bound of the carve.
CarveAllowedShortBound(m, x, y, dx, dy) ==
  LET newX == x + dx
      newY == y + dy
  IN  /\ newX > 0 /\ newX < MAZE_SIZE - 2 /\ newY > 0 /\ newY < MAZE_SIZE - 2
      /\ m[newY][newX] = WALL

\* The guard of carvePath's loop body.
CarveAllowed(m, x, y, dx, dy) ==
  LET newX == x + dx
      newY == y + dy
  IN  /\ newX > 0 /\ newX < MAZE_SIZE - 1 /\ newY > 0 /\ newY < MAZE_SIZE - 1
      /\ m[newY][newX] = WALL

\* A plausible slip: the wall beyond the new cell is opened, not the one between.
CarveOpenWallBeyond(m, x, y, dx, dy) ==
  SetCell(SetCell(m, x + dx, y + dy, PATH), x + dx + dx \div 2, y + dy + dy \div 2, PATH)

\* maze[newY][newX] = PATH; maze[y + dy / 2][x + dx / 2] = PATH
CarveOpen(m, x, y, dx, dy) ==
  SetCell(SetCell(m, x + dx, y + dy, PATH), x + dx \div 2, y + dy \div 2, PATH)

\* A plausible slip: the exit is placed on the border corner.
PlaceStartExitCorner(m) == SetCell(SetCell(m, 1, 1, PLAYER), MAZE_SIZE - 1, MAZE_SIZE - 1, EXIT)

\* maze[1][1] = PLAYER; maze[MAZE_SIZE - 2][MAZE_SIZE - 2] = EXIT
PlaceStartExit(m) == SetCell(SetCell(m, 1, 1, PLAYER), MAZE_SIZE - 2, MAZE_SIZE - 2, EXIT)

\* generateMaze is entered: the all-Wall grid, and carvePath(1, 1) is called,
\* whose first statement opens its own cell.
EnterGenerate(caller) ==
  /\ genFor' = caller
  /\ genMaze' = SetCell(AllWalls(MAZE_SIZE), 1, 1, PATH)
  /\ carveStack' = <<Point(1, 1)>>

(* -------------------------- findOptimalPath --------------------------- *)
\* A plausible slip: the horizontal neighbours are explored first.
directionsHorizontalFirst == <<[x |-> -1, y |-> 0], [x |-> 1, y |-> 0], [x |-> 0, y |-> -1], [x |-> 0, y |-> 1]>>

\* up, down, left, right
directions == <<[x |-> 0, y |-> -1], [x |-> 0, y |-> 1], [x |-> -1, y |-> 0], [x |-> 1, y |-> 0]>>

\* maze[y][x] as JavaScript evaluates it: indexing a missing row is a TypeError,
\* a missing column of an existing row reads undefined.
CellRead(m, x, y) ==
  IF y \notin DOMAIN m THEN "TypeError"
  ELSE IF x \notin DOMAIN m[y] THEN "undefined"
  ELSE m[y][x]

RECURSIVE ExploreDirections(_, _, _, _, _)
\* The for loop over `directions` for one dequeued item, from direction i on.
ExploreDirections(m, item, i, queue, visited) ==
  IF i > Len(directions) THEN [threw |-> FALSE, queue |-> queue, visited |-> visited]
  ELSE LET newX == item.point.x + directions[i].x
           newY == item.point.y + directions[i].y
           newPoint == Point(newX, newY)
           key == Key(newX, newY)
           inBounds == newX >= 0 /\ newX < MAZE_SIZE /\ newY >= 0 /\ newY < MAZE_SIZE
           cell == CellRead(m, newX, newY)
       IN  IF ~inBounds THEN ExploreDirections(m, item, i + 1, queue, visited)
           ELSE IF cell = "TypeError"
             THEN [threw |-> TRUE, queue |-> queue, visited |-> visited]
           ELSE IF cell # WALL /\ key \notin visited
             THEN ExploreDirections(m, item, i + 1,
                                    Append(queue, [point |-> newPoint, path |-> Append(item.path, newPoint)]),
                                    visited \cup {key})
           ELSE ExploreDirections(m, item, i + 1, queue, visited)

RECURSIVE SearchLoop(_, _, _, _)
\* while (queue.length > 0) { ... } return []
SearchLoop(m, end, queue, visited) ==
  IF Len(queue) = 0 THEN [threw |-> FALSE, path |-> <<>>]
  ELSE LET item == Head(queue)
       IN  IF item.point.x = end.x /\ item.point.y = end.y
             THEN [threw |-> FALSE, path |-> item.path]
           ELSE LET r == ExploreDirections(m, item, 1, Tail(queue), visited)
                IN  IF r.threw THEN [threw |-> TRUE, path |-> <<>>]
                    ELSE SearchLoop(m, end, r.queue, r.visited)

\* The result is [threw, path]: the returned path, or threw = TRUE when the
\* call ends in a TypeError.
findOptimalPath(m, start, end) ==
  SearchLoop(m, end, <<[point |-> start, path |-> <<start>>]>>, {Key(start.x, start.y)})

(* ----------------------- calculatePathDeviation ----------------------- *)
\* A plausible slip: only the cells off the optimal path are counted.
calculatePathDeviationExtraOnly(optimal, actual) ==
  LET optimalSet == {Key(optimal[i].x, optimal[i].y) : i \in DOMAIN optimal}
      actualSet == {Key(actual[i].x, actual[i].y) : i \in DOMAIN actual}
  IN  Cardinality({pos \in actualSet : pos \notin optimalSet})

calculatePathDeviation(optimal, actual) ==
  LET optimalSet == {Key(optimal[i].x, optimal[i].y) : i \in DOMAIN optimal}
      actualSet == {Key(actual[i].x, actual[i].y) : i \in DOMAIN actual}
      extraMoves == Cardinality({pos \in actualSet : pos \notin optimalSet})
      missedMoves == Cardinality({pos \in optimalSet : pos \notin actualSet})
  IN  extraMoves + missedMoves

(* ------------------------- MazeGame: handlers -------------------------- *)
startPoint == Point(1, 1)
endPoint == Point(MAZE_SIZE - 2, MAZE_SIZE - 2)

Keys == {"ArrowUp", "ArrowDown", "ArrowLeft", "ArrowRight"}

\* The switch of handleKeyDown: the direction passed with each arrow key.
KeyDirection(key) ==
  CASE key = "ArrowUp" -> [x |-> 0, y |-> -1]
    [] key = "ArrowDown" -> [x |-> 0, y |-> 1]
    [] key = "ArrowLeft" -> [x |-> -1, y |-> 0]
    [] key = "ArrowRight" -> [x |-> 1, y |-> 0]

\* key.replace('Arrow', '').toLowerCase()
DirectionKey(key) ==
  CASE key = "ArrowUp" -> "up"
    [] key = "ArrowDown" -> "down"
    [] key = "ArrowLeft" -> "left"
    [] key = "ArrowRight" -> "right"

NoMoves == [up |-> 0, down |-> 0, left |-> 0, right |-> 0]

\* Array(MAZE_SIZE).fill(0).map(() => Array(MAZE_SIZE).fill(0))
ZeroHeatmap == [y \in 0 .. MAZE_SIZE - 1 |-> [x \in 0 .. MAZE_SIZE - 1 |-> 0]]

\* Date.now() - startTime, in timer periods: the timer effect's interval has
\* run once per period since startGame set startTime and timeLeft together.
\* Time that passes after the episode has ended is not counted.
Elapsed == MaxTime - timeLeft

\* Quotients of the Metrics record, kept as the operands of the division.
Ratio(n, d) == [num |-> n, den |-> d]
\* The literal 0 of a guarded quotient.
Zero == Ratio(0, 1)

\* A plausible slip: the quotient is computed without its guard.
Unguarded(cond, q) == q

\* cond ? q : 0
Guarded(cond, q) == IF cond THEN q ELSE Zero

\* A plausible slip: the cell is marked visited instead of counted.
HeatmapMark(h, p) == [h EXCEPT ![p.y][p.x] = 1]

\* newHeatmap[newPos.y][newPos.x]++
HeatmapIncrement(h, p) == [h EXCEPT ![p.y][p.x] = @ + 1]

\* A plausible slip: the `return` of the collision branch is missing, so the
\* blocked move is also recorded as a move.
CollisionFallsThrough ==
  /\ wallCollisions' = wallCollisions + 1
  /\ moveCount' = moveCount + 1
  /\ UNCHANGED <<playerPos, backtrackCount, movementHistory, visitedCells,
                 firstHalfMetrics, heatmap, actualPath>>
  /\ UNCHANGED <<gameState, pathDeviation, pending>>

\* The wall-collision branch of handleMove: count the collision and return.
CollisionEffect ==
  /\ wallCollisions' = wallCollisions + 1
  /\ UNCHANGED <<playerPos, moveCount, backtrackCount, movementHistory, visitedCells,
                 firstHalfMetrics, heatmap, actualPath>>
  /\ UNCHANGED <<gameState, pathDeviation, pending>>

\* A plausible slip: the record takes the Actual Path the closure holds,
\* without the final move.
ExitMetricsStalePath(newPos) ==
  [via |-> "exit",
   episode |-> episode,
   completionTime |-> Elapsed,
   totalMoves |-> moveCount + 1,
   wallCollisions |-> wallCollisions,
   backtrackCount |-> backtrackCount,
   pathLength |-> Len(movementHistory) + 1,
   optimalPathLength |-> Len(optimalPath),
   pathEfficiency |-> [num |-> Len(optimalPath), den |-> Len(movementHistory) + 1],
   pathDeviation |-> calculatePathDeviation(optimalPath, Append(actualPath, newPos)),
   optimalPath |-> optimalPath,
   actualPath |-> actualPath,
   averageTimePerMove |-> Ratio(Elapsed, moveCount + 1),
   movementPatterns |-> movePatterns,
   heatmap |-> HeatmapIncrement(heatmap, newPos),
   firstHalfSpeed |-> Guarded(firstHalfMetrics.moves > 0,
                              Ratio(firstHalfMetrics.time, firstHalfMetrics.moves)),
   firstHalfAccuracy |-> Guarded(firstHalfMetrics.moves > 0,
                                 Ratio(firstHalfMetrics.moves - firstHalfMetrics.collisions,
                                       firstHalfMetrics.moves)),
   secondHalfSpeed |-> Ratio(Elapsed - firstHalfMetrics.time, moveCount - firstHalfMetrics.moves),
   secondHalfAccuracy |-> Ratio((moveCount - firstHalfMetrics.moves)
                                  - (wallCollisions - firstHalfMetrics.collisions),
                                moveCount - firstHalfMetrics.moves)]

\* The Metrics record built when the Exit is reached.  Every name is the value
\* the handler's closure holds, i.e. the state before this move, except the
\* heatmap: the closure's array shares its row arrays with the array the
\* setHeatmap updater returns, and the updater increments the row in place, so
\* the record that onComplete receives shows the final move's increment.
\* `via` labels the call site and `episode` the episode; neither is a field
\* of the source's record.  1 - a / b is kept as (b - a) / b.
ExitMetrics(newPos) ==
  [via |-> "exit",
   episode |-> episode,
   completionTime |-> Elapsed,
   totalMoves |-> moveCount + 1,
   wallCollisions |-> wallCollisions,
   backtrackCount |-> backtrackCount,
   pathLength |-> Len(movementHistory) + 1,
   optimalPathLength |-> Len(optimalPath),
   pathEfficiency |-> [num |-> Len(optimalPath), den |-> Len(movementHistory) + 1],
   pathDeviation |-> calculatePathDeviation(optimalPath, Append(actualPath, newPos)),
   optimalPath |-> optimalPath,
   actualPath |-> Append(actualPath, newPos),
   averageTimePerMove |-> Ratio(Elapsed, moveCount + 1),
   movementPatterns |-> movePatterns,
   heatmap |-> HeatmapIncrement(heatmap, newPos),
   firstHalfSpeed |-> Guarded(firstHalfMetrics.moves > 0,
                              Ratio(firstHalfMetrics.time, firstHalfMetrics.moves)),
   firstHalfAccuracy |-> Guarded(firstHalfMetrics.moves > 0,
                                 Ratio(firstHalfMetrics.moves - firstHalfMetrics.collisions,
                                       firstHalfMetrics.moves)),
   secondHalfSpeed |-> Ratio(Elapsed - firstHalfMetrics.time, moveCount - firstHalfMetrics.moves),
   secondHalfAccuracy |-> Ratio((moveCount - firstHalfMetrics.moves)
                                  - (wallCollisions - firstHalfMetrics.collisions),
                                moveCount - firstHalfMetrics.moves)]

\* The Metrics record built by the 'Next Game' button.
NextGameMetrics ==
  [via |-> "nextGame",
   episode |-> episode,
   completionTime |-> Elapsed,
   totalMoves |-> moveCount,
   wallCollisions |-> wallCollisions,
   backtrackCount |-> backtrackCount,
   pathLength |-> Len(movementHistory),
   optimalPathLength |-> Len(optimalPath),
   pathEfficiency |-> [num |-> Len(optimalPath), den |-> Len(movementHistory)],
   pathDeviation |-> pathDeviation,
   optimalPath |-> optimalPath,
   actualPath |-> Append(actualPath, Point(MAZE_SIZE - 2, MAZE_SIZE - 2)),
   averageTimePerMove |-> Ratio(Elapsed, moveCount),
   movementPatterns |-> movePatterns,
   heatmap |-> heatmap,
   firstHalfSpeed |-> Guarded(firstHalfMetrics.moves > 0,
                              Ratio(firstHalfMetrics.time, firstHalfMetrics.moves)),
   firstHalfAccuracy |-> Guarded(firstHalfMetrics.moves > 0,
                                 Ratio(firstHalfMetrics.moves - firstHalfMetrics.collisions,
                                       firstHalfMetrics.moves)),
   secondHalfSpeed |-> Guarded(moveCount > firstHalfMetrics.moves,
                               Ratio(Elapsed - firstHalfMetrics.time,
                                     moveCount - firstHalfMetrics.moves)),
   secondHalfAccuracy |-> Guarded(moveCount > firstHalfMetrics.moves,
                                  Ratio((moveCount - firstHalfMetrics.moves)
                                          - (wallCollisions - firstHalfMetrics.collisions),
                                        moveCount - firstHalfMetrics.moves))]

\* A plausible slip: the backtrack test reads the visited set after the
\* destination was added to it.
AcceptedEffectChecksAfterAdd(newPos, directionKey) ==
  LET newPosKey == Key(newPos.x, newPos.y)
  IN  /\ backtrackCount' = IF newPosKey \in visitedCells \cup {newPosKey}
                             THEN backtrackCount + 1 ELSE backtrackCount
      /\ visitedCells' = visitedCells \cup {newPosKey}
      /\ heatmap' = HeatmapIncrement(heatmap, newPos)
      /\ movementHistory' = Append(movementHistory, directionKey)
      /\ moveCount' = moveCount + 1
      /\ actualPath' = Append(actualPath, newPos)
      /\ playerPos' = newPos
      /\ firstHalfMetrics' = IF moveCount = (MAZE_SIZE * MAZE_SIZE) \div 2
                               THEN [moves |-> moveCount, collisions |-> wallCollisions, time |-> Elapsed]
                               ELSE firstHalfMetrics
      /\ UNCHANGED wallCollisions
      /\ IF newPos.x = MAZE_SIZE - 2 /\ newPos.y = MAZE_SIZE - 2
           THEN /\ Len(pending) < MaxPending
                /\ pathDeviation' = calculatePathDeviation(optimalPath, Append(actualPath, newPos))
                /\ gameState' = "gameOver"
                /\ pending' = Append(pending, ExitMetrics(newPos))
           ELSE UNCHANGED <<gameState, pathDeviation, pending>>

\* The accepted-move part of handleMove (from the backtrack check on).
AcceptedEffect(newPos, directionKey) ==
  LET newPosKey == Key(newPos.x, newPos.y)
  IN  /\ backtrackCount' = IF newPosKey \in visitedCells THEN backtrackCount + 1 ELSE backtrackCount
      /\ visitedCells' = visitedCells \cup {newPosKey}
      /\ heatmap' = HeatmapIncrement(heatmap, newPos)
      /\ movementHistory' = Append(movementHistory, directionKey)
      /\ moveCount' = moveCount + 1
      /\ actualPath' = Append(actualPath, newPos)
      /\ playerPos' = newPos
      /\ firstHalfMetrics' = IF moveCount = (MAZE_SIZE * MAZE_SIZE) \div 2
                               THEN [moves |-> moveCount, collisions |-> wallCollisions, time |-> Elapsed]
                               ELSE firstHalfMetrics
      /\ UNCHANGED wallCollisions
      /\ IF newPos.x = MAZE_SIZE - 2 /\ newPos.y = MAZE_SIZE - 2
           THEN /\ Len(pending) < MaxPending
                /\ pathDeviation' = calculatePathDeviation(optimalPath, Append(actualPath, newPos))
                /\ gameState' = "gameOver"
                /\ pending' = Append(pending, ExitMetrics(newPos))
           ELSE UNCHANGED <<gameState, pathDeviation, pending>>

\* A plausible slip: the per-direction counter is updated after the wall
\* check, so a blocked attempt is not counted.
HandleMoveCountsAfterWallCheck(direction, key) ==
  /\ mounted /\ genFor = "none"
  /\ gameState = "playing"
  /\ steps < MaxAttempts
  /\ steps' = steps + 1
  /\ LET newPos == Point(playerPos.x + direction.x, playerPos.y + direction.y)
         directionKey == DirectionKey(key)
     IN  IF maze[newPos.y][newPos.x] = WALL
           THEN CollisionEffect /\ UNCHANGED movePatterns
           ELSE /\ movePatterns' = [movePatterns EXCEPT ![directionKey] = @ + 1]
                /\ AcceptedEffect(newPos, directionKey)
  /\ UNCHANGED <<MAZE_SIZE, genVars, mounted, maze, timeLeft, optimalPath,
                 lastMetrics, completions, episode, findVars, devVars, seriesVars, hanoiVars>>

\* A plausible slip: the move is also written into the grid, the player's
\* mark moving with the player.
HandleMoveMarksPlayer(direction, key) ==
  /\ mounted /\ genFor = "none"
  /\ gameState = "playing"
  /\ steps < MaxAttempts
  /\ steps' = steps + 1
  /\ LET newPos == Point(playerPos.x + direction.x, playerPos.y + direction.y)
         directionKey == DirectionKey(key)
     IN  /\ movePatterns' = [movePatterns EXCEPT ![directionKey] = @ + 1]
         /\ IF maze[newPos.y][newPos.x] = WALL
              THEN CollisionEffect /\ UNCHANGED maze
              ELSE /\ AcceptedEffect(newPos, directionKey)
                   /\ maze' = SetCell(SetCell(maze, playerPos.x, playerPos.y, PATH),
                                      newPos.x, newPos.y, PLAYER)
  /\ UNCHANGED <<MAZE_SIZE, genVars, mounted, timeLeft, optimalPath,
                 lastMetrics, completions, episode, findVars, devVars, seriesVars, hanoiVars>>

\* A plausible slip: the wall check reads the cell the player stands on,
\* not the destination.
HandleMoveTestsCurrentCell(direction, key) ==
  /\ mounted /\ genFor = "none"
  /\ gameState = "playing"
  /\ steps < MaxAttempts
  /\ steps' = steps + 1
  /\ LET newPos == Point(playerPos.x + direction.x, playerPos.y + direction.y)
         directionKey == DirectionKey(key)
     IN  /\ movePatterns' = [movePatterns EXCEPT ![directionKey] = @ + 1]
         /\ IF maze[playerPos.y][playerPos.x] = WALL
              THEN CollisionEffect
              ELSE AcceptedEffect(newPos, directionKey)
  /\ UNCHANGED <<MAZE_SIZE, genVars, mounted, maze, timeLeft, optimalPath,
                 lastMetrics, completions, episode, findVars, devVars, seriesVars, hanoiVars>>

\* handleMove(direction, key), as handleKeyDown calls it for an arrow key.
HandleMove(direction, key) ==
  /\ mounted /\ genFor = "none"
  /\ gameState = "playing"
  /\ steps < MaxAttempts
  /\ steps' = steps + 1
  /\ LET newPos == Point(playerPos.x + direction.x, playerPos.y + direction.y)
         directionKey == DirectionKey(key)
     IN  /\ movePatterns' = [movePatterns EXCEPT ![directionKey] = @ + 1]
         /\ IF maze[newPos.y][newPos.x] = WALL
              THEN CollisionEffect
              ELSE AcceptedEffect(newPos, directionKey)
  /\ UNCHANGED <<MAZE_SIZE, genVars, mounted, maze, timeLeft, optimalPath,
                 lastMetrics, completions, episode, findVars, devVars, seriesVars, hanoiVars>>

KeyDown == \E key \in Keys : HandleMove(KeyDirection(key), key)

\* A plausible slip: the handlers lack the test of the game state, and a key
\* pressed outside play still moves the player to an open neighbouring cell.
KeyDownNotPlayingMoves ==
  /\ mounted /\ genFor = "none"
  /\ gameState # "playing"
  /\ steps < MaxAttempts
  /\ steps' = steps + 1
  /\ \E key \in Keys :
       LET direction == KeyDirection(key)
           newPos == Point(playerPos.x + direction.x, playerPos.y + direction.y)
       IN  /\ maze[newPos.y][newPos.x] # WALL
           /\ playerPos' = newPos
           /\ moveCount' = moveCount + 1
           /\ actualPath' = Append(actualPath, newPos)
  /\ UNCHANGED <<MAZE_SIZE, genVars, wallCollisions, backtrackCount, movementHistory,
                 visitedCells, movePatterns, firstHalfMetrics, heatmap, gameVars,
                 pending, lastMetrics, completions, episode, findVars, devVars, seriesVars, hanoiVars>>

\* A key pressed while the game state is not "playing": handleKeyDown returns
\* at its first line (and so would handleMove), before any state setter.
KeyDownNotPlaying ==
  /\ mounted /\ genFor = "none"
  /\ gameState # "playing"
  /\ UNCHANGED vars

\* A plausible slip: the visited set starts empty, without the Start cell.
StartGameNoVisited ==
  /\ mounted /\ genFor = "none"
  /\ episode < MaxEpisodes
  /\ episode' = episode + 1
  /\ EnterGenerate("start")
  /\ playerPos' = startPoint
  /\ actualPath' = <<startPoint>>
  /\ pathDeviation' = 0
  /\ gameState' = "playing"
  /\ timeLeft' = MaxTime
  /\ moveCount' = 0
  /\ wallCollisions' = 0
  /\ backtrackCount' = 0
  /\ movementHistory' = <<>>
  /\ visitedCells' = {}
  /\ movePatterns' = NoMoves
  /\ firstHalfMetrics' = [moves |-> 0, collisions |-> 0, time |-> 0]
  /\ heatmap' = ZeroHeatmap
  /\ UNCHANGED <<MAZE_SIZE, mounted, maze, optimalPath, pending, lastMetrics, completions,
                 steps, findVars, devVars, seriesVars, hanoiVars>>

\* A plausible slip: the Actual Path is reset to the empty list, as the
\* movement history is.
StartGameEmptyPath ==
  /\ mounted /\ genFor = "none"
  /\ episode < MaxEpisodes
  /\ episode' = episode + 1
  /\ EnterGenerate("start")
  /\ playerPos' = startPoint
  /\ actualPath' = <<>>
  /\ pathDeviation' = 0
  /\ gameState' = "playing"
  /\ timeLeft' = MaxTime
  /\ moveCount' = 0
  /\ wallCollisions' = 0
  /\ backtrackCount' = 0
  /\ movementHistory' = <<>>
  /\ visitedCells' = {<<"1", ",", "1">>}
  /\ movePatterns' = NoMoves
  /\ firstHalfMetrics' = [moves |-> 0, collisions |-> 0, time |-> 0]
  /\ heatmap' = ZeroHeatmap
  /\ UNCHANGED <<MAZE_SIZE, mounted, maze, optimalPath, pending, lastMetrics, completions,
                 steps, findVars, devVars, seriesVars, hanoiVars>>

\* startGame, up to the return of generateMaze.  The handler runs to completion
\* before anything can observe the component, so the order of its assignments
\* is not observable: the state setters of lines 325-340 are taken here, and
\* setMaze and setOptimalPath when the generated maze is returned (StartDone).
StartGame ==
  /\ mounted /\ genFor = "none"
  /\ episode < MaxEpisodes
  /\ episode' = episode + 1
  /\ EnterGenerate("start")
  /\ playerPos' = startPoint
  /\ actualPath' = <<startPoint>>
  /\ pathDeviation' = 0
  /\ gameState' = "playing"
  /\ timeLeft' = MaxTime
  /\ moveCount' = 0
  /\ wallCollisions' = 0
  /\ backtrackCount' = 0
  /\ movementHistory' = <<>>
  /\ visitedCells' = {<<"1", ",", "1">>}
  /\ movePatterns' = NoMoves
  /\ firstHalfMetrics' = [moves |-> 0, collisions |-> 0, time |-> 0]
  /\ heatmap' = ZeroHeatmap
  /\ UNCHANGED <<MAZE_SIZE, mounted, maze, optimalPath, pending, lastMetrics, completions,
                 steps, findVars, devVars, seriesVars, hanoiVars>>

\* One iteration of carvePath's loop that passes the guard: the cells are
\* opened and carvePath is called on the new cell.  The shuffle decides which
\* of the directions that pass the guard comes first; a direction that fails
\* the guard is skipped without effect and fails it ever after (no cell turns
\* back into a Wall), so the order of the skipped directions changes nothing.
CarveStep ==
  /\ genFor # "none" /\ carveStack # <<>>
  /\ LET top == carveStack[Len(carveStack)]
     IN  \E d \in carveDirections :
           /\ CarveAllowed(genMaze, top.x, top.y, d.dx, d.dy)
           /\ genMaze' = CarveOpen(genMaze, top.x, top.y, d.dx, d.dy)
           /\ carveStack' = Append(carveStack, Point(top.x + d.dx, top.y + d.dy))
  /\ UNCHANGED <<MAZE_SIZE, genFor, recorderVars, gameVars, outVars, findVars, devVars, seriesVars, hanoiVars>>

\* carvePath returns: no direction of the innermost call passes the guard.
CarveReturn ==
  /\ genFor # "none" /\ carveStack # <<>>
  /\ LET top == carveStack[Len(carveStack)]
     IN  \A d \in carveDirections : ~CarveAllowed(genMaze, top.x, top.y, d.dx, d.dy)
  /\ carveStack' = SubSeq(carveStack, 1, Len(carveStack) - 1)
  /\ UNCHANGED <<MAZE_SIZE, genFor, genMaze, recorderVars, gameVars, outVars, findVars, devVars, seriesVars, hanoiVars>>

\* generateMaze returns to the useState initializer: the component is mounted.
MountDone ==
  /\ genFor = "mount" /\ carveStack = <<>>
  /\ maze' = PlaceStartExit(genMaze)
  /\ mounted' = TRUE
  /\ genFor' = "none" /\ genMaze' = <<>>
  /\ UNCHANGED <<MAZE_SIZE, carveStack, recorderVars, gameState, timeLeft, optimalPath,
                 pathDeviation, outVars, findVars, devVars, seriesVars, hanoiVars>>

\* A plausible slip: the Optimal Path is not computed for the new maze.
StartDoneKeepsOptimalPath ==
  /\ genFor = "start" /\ carveStack = <<>>
  /\ LET newMaze == PlaceStartExit(genMaze)
     IN  /\ maze' = newMaze
         /\ optimalPath' = optimalPath
  /\ genFor' = "none" /\ genMaze' = <<>>
  /\ UNCHANGED <<MAZE_SIZE, carveStack, recorderVars, mounted, gameState, timeLeft,
                 pathDeviation, outVars, findVars, devVars, seriesVars, hanoiVars>>

\* generateMaze returns to startGame: setMaze(newMaze), setOptimalPath(optimal).
StartDone ==
  /\ genFor = "start" /\ carveStack = <<>>
  /\ LET newMaze == PlaceStartExit(genMaze)
     IN  /\ maze' = newMaze
         /\ optimalPath' = findOptimalPath(newMaze, startPoint, endPoint).path
  /\ genFor' = "none" /\ genMaze' = <<>>
  /\ UNCHANGED <<MAZE_SIZE, carveStack, recorderVars, mounted, gameState, timeLeft,
                 pathDeviation, outVars, findVars, devVars, seriesVars, hanoiVars>>

\* One run of the setInterval callback of the timer effect.
Tick ==
  /\ mounted /\ genFor = "none"
  /\ gameState = "playing"
  /\ IF timeLeft <= 1
       THEN timeLeft' = 0 /\ gameState' = "gameOver"
       ELSE timeLeft' = timeLeft - 1 /\ UNCHANGED gameState
  /\ UNCHANGED <<MAZE_SIZE, genVars, recorderVars, mounted, maze, optimalPath,
                 pathDeviation, outVars, findVars, devVars, seriesVars, hanoiVars>>

\* onComplete(score, metrics): the series moves on and unmounts the component.
OnComplete(metrics) ==
  /\ lastMetrics' = <<metrics>>
  /\ completions' = completions + 1
  /\ mounted' = FALSE

\* The 'Next Game' button of the gameOver screen.
NextGame ==
  /\ mounted /\ genFor = "none"
  /\ gameState = "gameOver"
  /\ OnComplete(NextGameMetrics)
  /\ UNCHANGED <<MAZE_SIZE, genVars, recorderVars, maze, gameState, timeLeft, optimalPath,
                 pathDeviation, pending, steps, episode, findVars, devVars, seriesVars, hanoiVars>>

\* The callback of setTimeout(() => onComplete(finalScore, metrics), 500) runs.
DeliverCompletion ==
  /\ genFor = "none"
  /\ pending # <<>>
  /\ OnComplete(Head(pending))
  /\ pending' = Tail(pending)
  /\ UNCHANGED <<MAZE_SIZE, genVars, recorderVars, maze, gameState, timeLeft, optimalPath,
                 pathDeviation, steps, episode, findVars, devVars, seriesVars, hanoiVars>>

(* ---------------------------- specifications --------------------------- *)
\* The values of the useState calls of MazeGame other than the maze.
UseStateDefaults ==
  /\ playerPos = Point(1, 1)
  /\ gameState = "ready"
  /\ timeLeft = MaxTime
  /\ moveCount = 0 /\ wallCollisions = 0 /\ backtrackCount = 0
  /\ movementHistory = <<>>
  /\ visitedCells = {}
  /\ movePatterns = NoMoves
  /\ firstHalfMetrics = [moves |-> 0, collisions |-> 0, time |-> 0]
  /\ heatmap = <<>>
  /\ optimalPath = <<>> /\ actualPath = <<>> /\ pathDeviation = 0
  /\ pending = <<>> /\ lastMetrics = <<>> /\ completions = 0 /\ steps = 0 /\ episode = 0

\* MazeGame is being mounted: generateMaze is entered for the initial maze.
InitComponent ==
  /\ genFor = "mount"
  /\ genMaze = SetCell(AllWalls(MAZE_SIZE), 1, 1, PATH)
  /\ carveStack = <<Point(1, 1)>>
  /\ mounted = FALSE
  /\ maze = <<>>
  /\ UseStateDefaults

\* No component: a function of the module is called on its own.
NoComponent ==
  /\ genFor = "none" /\ genMaze = <<>> /\ carveStack = <<>>
  /\ mounted = FALSE
  /\ maze = <<>>
  /\ UseStateDefaults

NoFindInput == grid = <<>> /\ findStart = Point(0, 0) /\ findEnd = Point(0, 0) /\ findResult = <<>>
NoDevInput == devOptimal = <<>> /\ devActual = <<>> /\ devResult = <<>>

\* The game order of handleGameComplete.
gameOrder == <<"stroop", "hanoi", "pattern", "maze", "memory", "word", "complete">>
Games == {"stroop", "hanoi", "pattern", "maze", "memory", "word"}

\* The values of the useState calls of GameSeries, with no mini-game callback
\* outstanding.
SeriesDefaults ==
  /\ userData = FALSE
  /\ currentGame = "stroop"
  /\ totalScore = 0
  /\ gameScores = [g \in Games |-> 0]
  /\ gameStates = [g \in Games \cup {"complete"} |-> FALSE]
  /\ phase = "ready" /\ score = 0
  /\ scheduled = <<>> /\ callbacks = 0

\* No series: a mini-game or a function is run on its own.
NoSeries == SeriesDefaults

\* The values of the useState calls of TowerOfHanoi with nothing saved in the
\* session storage.
HanoiDefaults ==
  /\ hanoiState = "ready"
  /\ towers = [i \in 0 .. 2 |-> IF i = 0 THEN <<3, 2, 1>> ELSE <<>>]
  /\ selectedTower = <<>>
  /\ moves = 0 /\ invalidMoves = 0
  /\ movePattern = [from \in 0 .. 2 |-> [to \in 0 .. 2 |-> 0]]
  /\ hanoiTimeLeft = MaxHanoiTime
  /\ clicks = 0

\* No puzzle on screen.
NoHanoi == HanoiDefaults

Init ==
  /\ MAZE_SIZE \in {2 * h + 1 : h \in 2 .. MaxHalfGame}
  /\ InitComponent /\ NoFindInput /\ NoDevInput /\ NoSeries /\ NoHanoi

Next == StartGame \/ CarveStep \/ CarveReturn \/ MountDone \/ StartDone
          \/ KeyDown \/ KeyDownNotPlaying \/ Tick \/ NextGame \/ DeliverCompletion

Spec == Init /\ [][Next]_vars

\* An episode on a maze of side 5 in which the player has gone back and forth
\* between Start and the open cell next to it until the accepted-move count is
\* floor(MAZE_SIZE * MAZE_SIZE / 2) = 12, the count at which handleMove takes
\* the first-half snapshot.  `first` is the direction the carve took first.
Alternate(a, b, n) == [i \in 1 .. n |-> IF i % 2 = 1 THEN a ELSE b]

CarvedFirst(first) ==
  IF first = "right"
    THEN CarveOpen(CarveOpen(CarveOpen(SetCell(AllWalls(MAZE_SIZE), 1, 1, PATH),
                                       1, 1, 2, 0), 3, 1, 0, 2), 3, 3, -2, 0)
    ELSE CarveOpen(CarveOpen(CarveOpen(SetCell(AllWalls(MAZE_SIZE), 1, 1, PATH),
                                       1, 1, 0, 2), 1, 3, 2, 0), 3, 3, 0, -2)

TwelveMovesIn(first) ==
  LET out == IF first = "right" THEN "right" ELSE "down"
      back == IF first = "right" THEN "left" ELSE "up"
      next == IF first = "right" THEN Point(2, 1) ELSE Point(1, 2)
      played == PlaceStartExit(CarvedFirst(first))
  IN  /\ genFor = "none" /\ genMaze = <<>> /\ carveStack = <<>>
      /\ mounted = TRUE
      /\ maze = played
      /\ optimalPath = findOptimalPath(played, startPoint, endPoint).path
      /\ gameState = "playing"
      /\ playerPos = startPoint
      /\ moveCount = 12 /\ wallCollisions = 0 /\ backtrackCount = 11
      /\ movementHistory = Alternate(out, back, 12)
      /\ actualPath = <<startPoint>> \o Alternate(next, startPoint, 12)
      /\ visitedCells = {Key(1, 1), Key(next.x, next.y)}
      /\ movePatterns = [NoMoves EXCEPT ![out] = 6, ![back] = 6]
      /\ firstHalfMetrics = [moves |-> 0, collisions |-> 0, time |-> 0]
      /\ heatmap = [ZeroHeatmap EXCEPT ![1][1] = 6, ![next.y][next.x] = 6]
      /\ pathDeviation = 0
      /\ pending = <<>> /\ lastMetrics = <<>> /\ completions = 0
      /\ episode = 1

\* The component from its mount on, or taken up twelve moves into an episode.
InitLong ==
  \/ Init
  \/ /\ MAZE_SIZE = 5
     /\ \E first \in {"right", "down"} : TwelveMovesIn(first)
     /\ timeLeft \in 1 .. MaxTime
     /\ steps = 0
     /\ NoFindInput /\ NoDevInput /\ NoSeries /\ NoHanoi

SpecLong == InitLong /\ [][Next]_vars

\* The component under the scheduling the runtime guarantees: the interval
\* timer keeps firing while it is installed, generateMaze runs to completion
\* within the handler that called it (for startGame this is stated as: the
\* state in which generateMaze has returned to it is always left again, which
\* only StartDone does), and a callback handed to setTimeout is run once its
\* delay has passed.
SpecFair ==
  /\ Init /\ [][Next]_vars
  /\ WF_vars(Tick)
  /\ WF_vars(CarveStep \/ CarveReturn \/ MountDone)
  /\ []<>~(genFor = "start" /\ carveStack = <<>>)
  /\ WF_vars(DeliverCompletion)

\* The generator alone, on larger grids: generateMaze as the useState
\* initializer runs it.
InitGen ==
  /\ MAZE_SIZE \in {2 * h + 1 : h \in 2 .. MaxHalfGen}
  /\ InitComponent /\ NoFindInput /\ NoDevInput /\ NoSeries /\ NoHanoi

NextGen == CarveStep \/ CarveReturn \/ MountDone

SpecGen == InitGen /\ [][NextGen]_vars

\* The same generator runs, as the specification under which the path finder
\* is applied to every pair of open cells of each returned grid.
SpecGenFind == InitGen /\ [][NextGen]_vars

\* The generator as a call that runs to completion: generateMaze is
\* synchronous code, so its next step is always taken.
SpecGenFair == InitGen /\ [][NextGen]_vars /\ WF_vars(NextGen)

\* The generator with MAZE_SIZE set to any side from 2 on, even sides and
\* sides below 5 included.  (With a side below 2 the first statement of
\* carvePath(1, 1) indexes a missing row.)
InitAnySide ==
  /\ MAZE_SIZE \in 2 .. 2 * MaxHalfGen + 1
  /\ InitComponent /\ NoFindInput /\ NoDevInput /\ NoSeries /\ NoHanoi

SpecAnySide == InitAnySide /\ [][NextGen]_vars

\* findOptimalPath applied to every grid of side 2 .. MaxGridSide over
\* {Wall, Open} and every pair of its points, MAZE_SIZE being any of the same
\* sides: equal to the grid's side, smaller or larger.
GridPoints(g) == {Point(px, py) : px \in DOMAIN g, py \in DOMAIN g}

InitFind ==
  /\ MAZE_SIZE \in 2 .. MaxGridSide
  /\ \E n \in 2 .. MaxGridSide : grid \in [0 .. n - 1 -> [0 .. n - 1 -> {WALL, PATH}]]
  /\ findStart \in GridPoints(grid)
  /\ findEnd \in GridPoints(grid)
  /\ findResult = <<>>
  /\ NoComponent /\ NoDevInput /\ NoSeries /\ NoHanoi

ApplyFind ==
  /\ findResult = <<>>
  /\ findResult' = <<findOptimalPath(grid, findStart, findEnd)>>
  /\ UNCHANGED <<MAZE_SIZE, genVars, recorderVars, gameVars, outVars, grid, findStart, findEnd, devVars,
                 seriesVars, hanoiVars>>

SpecFind == InitFind /\ [][ApplyFind]_vars

\* calculatePathDeviation applied to every pair of paths of at most MaxPathLen
\* points; the points include two whose coordinates have the same digits.
DevPoints == {Point(1, 1), Point(1, 11), Point(11, 1), Point(2, 1)}

PathsUpTo(n) == UNION {[1 .. k -> DevPoints] : k \in 0 .. n}

InitDev ==
  /\ MAZE_SIZE = 21
  /\ devOptimal \in PathsUpTo(MaxPathLen)
  /\ devActual \in PathsUpTo(MaxPathLen)
  /\ devResult = <<>>
  /\ NoComponent /\ NoFindInput /\ NoSeries /\ NoHanoi

ApplyDeviation ==
  /\ devResult = <<>>
  /\ devResult' = <<calculatePathDeviation(devOptimal, devActual)>>
  /\ UNCHANGED <<MAZE_SIZE, genVars, recorderVars, gameVars, outVars, findVars, devOptimal, devActual,
                 seriesVars, hanoiVars>>

SpecDev == InitDev /\ [][ApplyDeviation]_vars


(* ------------------------------ GameSeries ----------------------------- *)
\* gameOrder.indexOf(game), counted from 0.
IndexOf(game) == CHOOSE i \in 0 .. Len(gameOrder) - 1 : gameOrder[i + 1] = game

\* The mini-games that hand onComplete to setTimeout whenever they end
\* (tower-of-hanoi.tsx 319 and 379, memory-game.tsx 349), and the one that does
\* so only when it ends with success (maze-game.tsx 448; its timeout ends the
\* episode without a call).
SchedulesAlways == {"hanoi", "memory"}
SchedulesOnSuccess == {"maze"}

\* A mini-game is on screen.
GameOnScreen == userData /\ currentGame \in Games

\* handleGameComplete(game, score): the three state updates, then the move to
\* the game after `game`.  A change of currentGame replaces the mini-game on
\* screen by a newly mounted one.
HandleGameComplete(game, s) ==
  /\ callbacks < MaxCallbacks
  /\ callbacks' = callbacks + 1
  /\ gameStates' = [gameStates EXCEPT ![game] = TRUE]
  /\ gameScores' = [gameScores EXCEPT ![game] = s]
  /\ totalScore' = totalScore + s
  /\ LET currentIndex == IndexOf(game)
     IN  IF currentIndex < Len(gameOrder) - 1
           THEN currentGame' = gameOrder[currentIndex + 2]
           ELSE UNCHANGED currentGame
  /\ IF currentGame' # currentGame
       THEN phase' = "ready" /\ score' = 0
       ELSE UNCHANGED <<phase, score>>
  /\ UNCHANGED userData

\* handleUserSubmit: the form is replaced by the first game.
HandleUserSubmit ==
  /\ ~userData
  /\ userData' = TRUE
  /\ currentGame' = "stroop"
  /\ phase' = "ready" /\ score' = 0
  /\ UNCHANGED <<totalScore, gameScores, gameStates, scheduled, callbacks>>
  /\ UNCHANGED <<MAZE_SIZE, genVars, recorderVars, gameVars, outVars, findVars, devVars, hanoiVars>>

\* The start button of the mini-game on screen, and the maze's 'Try Again'.
MiniGameStart ==
  /\ GameOnScreen
  /\ phase = "ready" \/ (phase = "over" /\ currentGame = "maze")
  /\ phase' = "playing" /\ score' = 0
  /\ UNCHANGED <<userData, currentGame, totalScore, gameScores, gameStates, scheduled, callbacks>>
  /\ UNCHANGED <<MAZE_SIZE, genVars, recorderVars, gameVars, outVars, findVars, devVars, hanoiVars>>

\* The mini-game on screen ends with score s.  The Stroop game reports from an
\* effect as soon as it is complete; the others show their final screen,
\* having handed the report to setTimeout or not.
MiniGameEnd ==
  /\ GameOnScreen
  /\ phase = "playing"
  /\ \E s \in 0 .. MaxScore :
       IF currentGame = "stroop"
         THEN HandleGameComplete("stroop", s) /\ UNCHANGED scheduled
         ELSE /\ phase' = "over"
              /\ \E report \in IF currentGame \in SchedulesAlways THEN {TRUE}
                                ELSE IF currentGame \in SchedulesOnSuccess THEN BOOLEAN
                                ELSE {FALSE} :
                   IF report
                     THEN /\ Len(scheduled) < MaxScheduled
                          /\ scheduled' = Append(scheduled, [game |-> currentGame, score |-> s])
                          /\ score' = s
                     ELSE /\ UNCHANGED scheduled
                          /\ score' = IF currentGame = "maze" THEN score ELSE s
              /\ UNCHANGED <<userData, currentGame, totalScore, gameScores, gameStates,
                             callbacks>>
  /\ UNCHANGED <<MAZE_SIZE, genVars, recorderVars, gameVars, outVars, findVars, devVars, hanoiVars>>

\* The 'Next Game' button of the final screen of the mini-game on screen: it
\* calls onComplete with the score the component holds (the memory game with
\* a score it computes from the matches).
MiniGameNext ==
  /\ GameOnScreen
  /\ phase = "over"
  /\ \E s \in IF currentGame = "memory" THEN 0 .. MaxScore ELSE {score} :
       HandleGameComplete(currentGame, s)
  /\ UNCHANGED scheduled
  /\ UNCHANGED <<MAZE_SIZE, genVars, recorderVars, gameVars, outVars, findVars, devVars, hanoiVars>>

\* A callback handed to setTimeout by a mini-game runs: no mini-game clears
\* its timeout, so it runs whether or not that mini-game is still on screen.
ScheduledComplete ==
  /\ scheduled # <<>>
  /\ HandleGameComplete(Head(scheduled).game, Head(scheduled).score)
  /\ scheduled' = Tail(scheduled)
  /\ UNCHANGED <<MAZE_SIZE, genVars, recorderVars, gameVars, outVars, findVars, devVars, hanoiVars>>

\* restartSeries, the button of the final report.
RestartSeries ==
  /\ userData /\ currentGame = "complete"
  /\ currentGame' = "stroop"
  /\ totalScore' = 0
  /\ gameScores' = [g \in Games |-> 0]
  /\ userData' = FALSE
  /\ gameStates' = [g \in Games \cup {"complete"} |-> FALSE]
  /\ phase' = "ready" /\ score' = 0
  /\ UNCHANGED <<scheduled, callbacks>>
  /\ UNCHANGED <<MAZE_SIZE, genVars, recorderVars, gameVars, outVars, findVars, devVars, hanoiVars>>

InitSeries ==
  /\ MAZE_SIZE = 21
  /\ NoComponent /\ NoFindInput /\ NoDevInput /\ NoHanoi
  /\ SeriesDefaults

NextSeries == HandleUserSubmit \/ MiniGameStart \/ MiniGameEnd \/ MiniGameNext
                \/ ScheduledComplete \/ RestartSeries

\* The game series, each mini-game reduced to its start, its end and its
\* reports to the series.
SpecSeries == InitSeries /\ [][NextSeries]_vars

(* ----------------------------- TowerOfHanoi ---------------------------- *)
\* 2^n - 1 for the three disks (line 123).
optimalMoves == 7

NoMovePattern == [from \in 0 .. 2 |-> [to \in 0 .. 2 |-> 0]]

\* Math.max(a, b)
Max(a, b) == IF a >= b THEN a ELSE b

\* The score of a solved puzzle (lines 306-310), from the move count and the
\* time left as the handler sees them: Math.floor(7 / (moves + 1) * 300) is
\* 2100 \div (moves + 1).
SolvedScore == Max(100 - (moves - optimalMoves) * 10, 10) + hanoiTimeLeft * 2
                 + (optimalMoves * 300) \div (moves + 1)

\* startGame of the puzzle: the 'Start Game' button of the ready screen and
\* the 'Restart' button shown while playing.
HanoiStartGame ==
  /\ hanoiState \in {"ready", "playing"}
  /\ hanoiState' = "playing"
  /\ towers' = [i \in 0 .. 2 |-> IF i = 0 THEN <<3, 2, 1>> ELSE <<>>]
  /\ selectedTower' = <<>>
  /\ moves' = 0
  /\ hanoiTimeLeft' = MaxHanoiTime
  /\ score' = 0
  /\ invalidMoves' = 0
  /\ movePattern' = NoMovePattern
  /\ UNCHANGED <<clicks, userData, currentGame, totalScore, gameScores, gameStates, phase,
                 scheduled, callbacks>>
  /\ UNCHANGED <<MAZE_SIZE, genVars, recorderVars, gameVars, outVars, findVars, devVars>>

\* A plausible slip: the comparison of the two top disks is reversed.
MoveAllowedReversed(sourceDisks, targetDisks) ==
  \/ Len(targetDisks) = 0
  \/ sourceDisks[Len(sourceDisks)] > targetDisks[Len(targetDisks)]

\* The test of line 228: the target is empty or its top disk is larger.
MoveAllowed(sourceDisks, targetDisks) ==
  \/ Len(targetDisks) = 0
  \/ sourceDisks[Len(sourceDisks)] < targetDisks[Len(targetDisks)]

\* handleTowerClick(towerIndex).  The time stamps and the records built from
\* them (move sequence, tower states, first-half snapshot, metrics) are left
\* out; the completion callback of a solved puzzle is handed to setTimeout.
HandleTowerClick(towerIndex) ==
  /\ hanoiState = "playing"
  /\ clicks < MaxClicks
  /\ clicks' = clicks + 1
  /\ IF selectedTower = <<>>
       THEN /\ selectedTower' = IF Len(towers[towerIndex]) > 0 THEN <<towerIndex>> ELSE <<>>
            /\ UNCHANGED <<hanoiState, towers, moves, invalidMoves, movePattern, score, scheduled>>
       ELSE IF selectedTower = <<towerIndex>>
         THEN /\ selectedTower' = <<>>
              /\ UNCHANGED <<hanoiState, towers, moves, invalidMoves, movePattern, score,
                             scheduled>>
         ELSE LET sourceDisks == towers[selectedTower[1]]
                  targetDisks == towers[towerIndex]
              IN  IF MoveAllowed(sourceDisks, targetDisks)
                    THEN LET diskToMove == sourceDisks[Len(sourceDisks)]
                             newTowers == [towers EXCEPT
                                             ![selectedTower[1]] = SubSeq(sourceDisks, 1, Len(sourceDisks) - 1),
                                             ![towerIndex] = Append(targetDisks, diskToMove)]
                         IN  /\ movePattern' = [movePattern EXCEPT ![selectedTower[1]][towerIndex] = @ + 1]
                             /\ towers' = newTowers
                             /\ moves' = moves + 1
                             /\ selectedTower' = <<>>
                             /\ UNCHANGED invalidMoves
                             /\ IF Len(newTowers[2]) = 3
                                  THEN /\ hanoiState' = "gameOver"
                                       /\ score' = SolvedScore
                                       /\ scheduled' = Append(scheduled, [game |-> "hanoi", score |-> SolvedScore])
                                  ELSE UNCHANGED <<hanoiState, score, scheduled>>
                    ELSE /\ invalidMoves' = invalidMoves + 1
                         /\ selectedTower' = <<>>
                         /\ UNCHANGED <<hanoiState, towers, moves, movePattern, score, scheduled>>
  /\ UNCHANGED <<hanoiTimeLeft, userData, currentGame, totalScore, gameScores, gameStates, phase,
                 callbacks>>
  /\ UNCHANGED <<MAZE_SIZE, genVars, recorderVars, gameVars, outVars, findVars, devVars>>

TowerClick == \E towerIndex \in 0 .. 2 : HandleTowerClick(towerIndex)

\* One run of the setInterval callback of the puzzle's timer effect: at 1 or
\* less the game is over, the progress score is set and the completion
\* callback is handed to setTimeout.
HanoiTick ==
  /\ hanoiState = "playing"
  /\ IF hanoiTimeLeft <= 1
       THEN LET progressScore == Len(towers[2]) * 30 + Len(towers[1]) * 10
            IN  /\ hanoiTimeLeft' = 0
                /\ hanoiState' = "gameOver"
                /\ score' = progressScore
                /\ scheduled' = Append(scheduled, [game |-> "hanoi", score |-> progressScore])
       ELSE /\ hanoiTimeLeft' = hanoiTimeLeft - 1
            /\ UNCHANGED <<hanoiState, score, scheduled>>
  /\ UNCHANGED <<towers, selectedTower, moves, invalidMoves, movePattern, clicks>>
  /\ UNCHANGED <<userData, currentGame, totalScore, gameScores, gameStates, phase, callbacks>>
  /\ UNCHANGED <<MAZE_SIZE, genVars, recorderVars, gameVars, outVars, findVars, devVars>>

InitHanoi ==
  /\ MAZE_SIZE = 21
  /\ NoComponent /\ NoFindInput /\ NoDevInput /\ NoSeries
  /\ HanoiDefaults

NextHanoi == HanoiStartGame \/ TowerClick \/ HanoiTick

\* The disk-transfer puzzle on its own.
SpecHanoi == InitHanoi /\ [][NextHanoi]_vars

(* ------------------ vocabulary of the properties ---------------------- *)
Abs(n) == IF n < 0 THEN 0 - n ELSE n

Adjacent(p, q) == Abs(p.x - q.x) + Abs(p.y - q.y) = 1

\* The non-Wall cells of a grid.
OpenCells(g) == {p \in GridPoints(g) : g[p.y][p.x] # WALL}

RECURSIVE Layers(_, _, _, _, _)
\* The number of moves of a shortest walk over non-Wall cells from the cells
\* of `frontier` to `target`, `dist` moves having been made; -1 if there is none.
Layers(g, frontier, seen, dist, target) ==
  IF target \in frontier THEN dist
  ELSE IF frontier = {} THEN -1
  ELSE LET next == {q \in OpenCells(g) \ seen : \E p \in frontier : Adjacent(p, q)}
       IN  Layers(g, next, seen \cup next, dist + 1, target)

Distance(g, s, e) == Layers(g, {s}, {s}, 0, e)

\* A walk of the grid: every cell in the grid and non-Wall, consecutive cells 4-adjacent.
IsWalk(g, path) ==
  /\ \A i \in DOMAIN path : path[i] \in OpenCells(g)
  /\ \A i \in 1 .. Len(path) - 1 : Adjacent(path[i], path[i + 1])

\* The state in which a generated maze has been returned to the component.
MazeReturned == mounted /\ genFor = "none"

\* The carve lattice: the cells with both coordinates odd, and the cells
\* between two-step neighbours (exactly one coordinate odd), inside the border.
LatticeNodes == {p \in GridPoints(maze) : p.x % 2 = 1 /\ p.y % 2 = 1}
LatticeWalls == {p \in GridPoints(maze) : (p.x + p.y) % 2 = 1 /\ p.x > 0 /\ p.y > 0
                                          /\ p.x < MAZE_SIZE - 1 /\ p.y < MAZE_SIZE - 1}
Between(a, b) == Point((a.x + b.x) \div 2, (a.y + b.y) \div 2)
Linked(a, b) ==
  /\ Abs(a.x - b.x) + Abs(a.y - b.y) = 2
  /\ (a.x = b.x \/ a.y = b.y)
  /\ maze[Between(a, b).y][Between(a, b).x] # WALL

\* The neighbours of each node in the carve lattice.
LatticeLinks == [a \in LatticeNodes |-> {n \in LatticeNodes : Linked(a, n)}]

RECURSIVE PathEnds(_, _, _)
RECURSIVE PathEndsVia(_, _, _)
\* The end nodes of the simple paths that leave a and avoid `used`, one entry
\* per path, in the graph whose neighbour sets are `links`.
PathEnds(links, a, used) ==
  <<a>> \o PathEndsVia(links, links[a] \ used, used)
PathEndsVia(links, nbrs, used) ==
  IF nbrs = {} THEN <<>>
  ELSE LET n == CHOOSE n \in nbrs : TRUE
       IN  PathEnds(links, n, used \cup {n}) \o PathEndsVia(links, nbrs \ {n}, used)

\* The Metrics records in existence: scheduled for onComplete, or handed to it.
Records == {pending[i] : i \in DOMAIN pending} \cup {lastMetrics[i] : i \in DOMAIN lastMetrics}

RECURSIVE SumOver(_, _)
SumOver(f, S) == IF S = {} THEN 0 ELSE LET e == CHOOSE e \in S : TRUE IN f[e] + SumOver(f, S \ {e})

RECURSIVE SumRows(_, _)
SumRows(h, S) == IF S = {} THEN 0
                 ELSE LET r == CHOOSE r \in S : TRUE IN SumOver(h[r], DOMAIN h[r]) + SumRows(h, S \ {r})

\* The sum of all cells of a heatmap.
SumHeatmap(h) == SumRows(h, DOMAIN h)

(* ------------------------------ claims -------------------------------- *)
\* C1 (as claimed): for a grid of any side and points s, e with e reachable
\* from s over 4-adjacent non-Wall cells, findOptimalPath returns a walk from
\* s to e over non-Wall cells of the grid with the least number of cells.
C1_ShortestPathAnyGrid ==
  (/\ findResult # <<>>
   /\ findStart \in OpenCells(grid)
   /\ Distance(grid, findStart, findEnd) >= 0)
  => LET r == findResult[1]
     IN  /\ ~r.threw
         /\ r.path # <<>>
         /\ r.path[1] = findStart
         /\ r.path[Len(r.path)] = findEnd
         /\ IsWalk(grid, r.path)
         /\ Len(r.path) = Distance(grid, findStart, findEnd) + 1

\* C2: in every generated grid every non-Wall cell is reachable from Start
\* over non-Wall cells, and findOptimalPath returns a non-empty path between
\* any two non-Wall cells.
C2_Connectivity ==
  MazeReturned =>
    /\ \A c \in OpenCells(maze) : Distance(maze, startPoint, c) >= 0
    /\ \A a \in OpenCells(maze) : \A b \in OpenCells(maze) :
         LET r == findOptimalPath(maze, a, b) IN ~r.threw /\ r.path # <<>>

C2_Witness ==
  MazeReturned /\ MAZE_SIZE = 7 /\ Cardinality(OpenCells(maze)) = 17

\* C3: in every generated grid the carve lattice is a spanning tree: every
\* odd-coordinate cell is open and there is exactly one simple path between
\* any two of them.
C3_SpanningTree ==
  MazeReturned =>
    /\ \A a \in LatticeNodes : maze[a.y][a.x] # WALL
    /\ LET links == LatticeLinks
       IN  \A a \in LatticeNodes :
             LET ends == PathEnds(links, a, {a})
             IN  \A b \in LatticeNodes : Cardinality({i \in DOMAIN ends : ends[i] = b}) = 1

C3_Witness ==
  MazeReturned /\ MAZE_SIZE = 7
    /\ \E a \in LatticeNodes : Cardinality({n \in LatticeNodes : Linked(a, n)}) >= 3

\* C4 (as claimed): the carve lattice of a generated grid has (ceil(N/2))^2
\* nodes and nodes - 1 opened connecting wall cells.
C4_NodeCountCeil ==
  MazeReturned =>
    LET nodes == Cardinality(LatticeNodes \cap OpenCells(maze))
        edges == Cardinality(LatticeWalls \cap OpenCells(maze))
    IN  /\ nodes = ((MAZE_SIZE + 1) \div 2) * ((MAZE_SIZE + 1) \div 2)
        /\ edges = nodes - 1

\* C4 (amended): the carve lattice of a generated grid has (floor(N/2))^2
\* nodes, all open, and nodes - 1 opened connecting wall cells.
C4_NodeCountFloor ==
  MazeReturned =>
    LET nodes == Cardinality(LatticeNodes \cap OpenCells(maze))
        edges == Cardinality(LatticeWalls \cap OpenCells(maze))
    IN  /\ nodes = (MAZE_SIZE \div 2) * (MAZE_SIZE \div 2)
        /\ edges = nodes - 1

C4_Witness ==
  MazeReturned /\ MAZE_SIZE = 7 /\ Cardinality(LatticeWalls \cap OpenCells(maze)) = 8

\* C5: in every generated grid (1,1) holds the Start mark and (N-2,N-2) the
\* Exit mark, no other cell holds either, and both cells are non-Wall.
C5_StartExit ==
  MazeReturned =>
    /\ maze[1][1] = PLAYER
    /\ maze[MAZE_SIZE - 2][MAZE_SIZE - 2] = EXIT
    /\ \A p \in GridPoints(maze) :
         /\ maze[p.y][p.x] = PLAYER => p = Point(1, 1)
         /\ maze[p.y][p.x] = EXIT => p = Point(MAZE_SIZE - 2, MAZE_SIZE - 2)
    /\ {Point(1, 1), Point(MAZE_SIZE - 2, MAZE_SIZE - 2)} \subseteq OpenCells(maze)

C5_Witness ==
  MazeReturned /\ MAZE_SIZE = 7 /\ maze[5][5] = EXIT /\ maze[5][4] = WALL

\* C6: a move attempt whose destination is a Wall raises the wall-collision
\* count by exactly 1 and leaves the position, the Actual Path, the visited
\* set, the heatmap, the accepted-move count and the backtrack count unchanged.
\* (A move attempt in direction `key` is a step that counts one more attempt
\* and one more move in that direction.)
C6_WallCollisionFrame ==
  [][\A key \in Keys :
       (/\ mounted /\ genFor = "none" /\ gameState = "playing"
        /\ steps' = steps + 1
        /\ movePatterns' = [movePatterns EXCEPT ![DirectionKey(key)] = @ + 1]
        /\ maze[playerPos.y + KeyDirection(key).y][playerPos.x + KeyDirection(key).x] = WALL)
       => (/\ wallCollisions' = wallCollisions + 1
           /\ UNCHANGED <<playerPos, actualPath, visitedCells, heatmap, moveCount, backtrackCount>>)]_vars

C6_Witness ==
  MazeReturned /\ gameState = "playing" /\ wallCollisions = 2 /\ moveCount = 1

\* C7: the sum of all heatmap cells equals the number of accepted moves, at
\* every point of an episode and in every Metrics record.
C7_HeatmapConservation ==
  /\ SumHeatmap(heatmap) = moveCount
  /\ actualPath # <<>> => SumHeatmap(heatmap) = Len(actualPath) - 1
  /\ \A r \in Records : SumHeatmap(r.heatmap) = r.totalMoves

C7_Witness ==
  /\ \E r \in Records : r.via = "exit" /\ r.backtrackCount >= 1 /\ SumHeatmap(r.heatmap) = 6
  /\ \E p \in GridPoints(heatmap) : heatmap[p.y][p.x] = 2

\* C8 (as claimed): the pathEfficiency of the Metrics record of an episode
\* that ended by reaching the Exit lies in (0, 1].
C8_EfficiencyBound ==
  \A r \in Records :
    r.via = "exit" => /\ r.pathEfficiency.den > 0
                      /\ r.pathEfficiency.num > 0
                      /\ r.pathEfficiency.num <= r.pathEfficiency.den

\* C9 (as claimed): a Metrics record whose Actual Path is the Optimal Path
\* reports pathEfficiency 1.0, and one whose Actual Path is twice as long as
\* the Optimal Path reports 0.5.
C9_EfficiencyValues ==
  \A r \in Records :
    /\ r.actualPath = r.optimalPath
         => r.pathEfficiency.den # 0 /\ r.pathEfficiency.num = r.pathEfficiency.den
    /\ (r.optimalPath # <<>> /\ Len(r.actualPath) = 2 * Len(r.optimalPath))
         => r.pathEfficiency.den # 0 /\ 2 * r.pathEfficiency.num = r.pathEfficiency.den

\* C10: calculatePathDeviation is the number of cells in the symmetric
\* difference of the two paths' sets of distinct cells (so it depends on the
\* paths only through those sets: not on order, not on repetition).
C10_DeviationIsSymmetricDifference ==
  devResult # <<>> =>
    LET optimalCells == {devOptimal[i] : i \in DOMAIN devOptimal}
        actualCells == {devActual[i] : i \in DOMAIN devActual}
    IN  devResult[1] = Cardinality((actualCells \ optimalCells) \cup (optimalCells \ actualCells))

C10_Witness ==
  /\ devResult = <<3>>
  /\ devOptimal = <<Point(1, 11), Point(11, 1), Point(1, 11)>>
  /\ devActual = <<Point(11, 1), Point(1, 1), Point(2, 1)>>

\* C11: calculatePathDeviation gives the same number with its two arguments
\* exchanged, and 0 when both arguments are the same path.
C11_DeviationSymmetric ==
  devResult # <<>> =>
    /\ devResult[1] = calculatePathDeviation(devActual, devOptimal)
    /\ devOptimal = devActual => devResult[1] = 0

C11_Witness ==
  /\ devResult = <<2>>
  /\ Len(devOptimal) = 1 /\ Len(devActual) = 3
  /\ devOptimal[1] = devActual[2]

\* An episode ended by the timer: the time ran out and the player is not on
\* the Exit.
TimedOut == gameState = "gameOver" /\ timeLeft = 0 /\ playerPos # endPoint

\* C12 (as claimed): the Metrics record produced for an episode that timed out
\* after k accepted moves has an actualPath of k + 1 points: Start and the k
\* accepted destinations.
C12_TimeoutPathLength ==
  \A i \in DOMAIN lastMetrics :
    (TimedOut /\ lastMetrics[i].via = "nextGame" /\ lastMetrics[i].episode = episode)
      => /\ Len(lastMetrics[i].actualPath) = moveCount + 1
         /\ lastMetrics[i].actualPath = actualPath

\* C13 (as claimed, the part a finite run can refute): onComplete is never
\* called twice for the same episode.
C13_AtMostOncePerEpisode ==
  [][(completions' = completions + 1 /\ lastMetrics # <<>>)
       => lastMetrics'[1].episode # lastMetrics[1].episode]_vars

\* The quotients of a Metrics record.
Quotients(r) == {r.pathEfficiency, r.averageTimePerMove, r.firstHalfSpeed,
                 r.firstHalfAccuracy, r.secondHalfSpeed, r.secondHalfAccuracy}

\* C14 (as claimed): no quotient of a Metrics record has a zero denominator,
\* and pathEfficiency and averageTimePerMove are 0 when no move was accepted.
C14_NoZeroDenominator ==
  \A r \in Records :
    /\ \A q \in Quotients(r) : q.den # 0
    /\ r.totalMoves = 0 => r.pathEfficiency.num = 0 /\ r.averageTimePerMove.num = 0

\* C15 (as claimed): between two points of a grid that no walk over non-Wall
\* cells joins, findOptimalPath returns the empty path and does not throw.
C15_UnreachableIsEmpty ==
  (findResult # <<>> /\ Distance(grid, findStart, findEnd) = -1)
    => ~findResult[1].threw /\ findResult[1].path = <<>>

\* C16 (as claimed): two runs of generateMaze with the same side length give
\* the same Grid and the same Optimal Path.  (generateMaze takes no seed: its
\* only configuration is MAZE_SIZE.)  The two runs are the one that made the
\* current maze and the one startGame has just finished.
C16_SameSideSameMaze ==
  [][(genFor = "start" /\ genFor' = "none")
       => /\ maze' = maze
          /\ optimalPath # <<>> => optimalPath' = optimalPath]_vars

CountedDirections == {"up", "down", "left", "right"}
Displacement(d) ==
  CASE d = "up" -> Point(0, -1) [] d = "down" -> Point(0, 1)
    [] d = "left" -> Point(-1, 0) [] d = "right" -> Point(1, 0)

\* C18: every move attempt made while playing, accepted or blocked, adds
\* exactly 1 to the counter of the attempted direction and leaves the other
\* three unchanged, and up + down + left + right always equals accepted moves
\* + wall collisions.
C18_DirectionCounters ==
  [][/\ steps' = steps + 1 =>
          \E d \in CountedDirections :
            /\ movePatterns' = [movePatterns EXCEPT ![d] = @ + 1]
            /\ playerPos' # playerPos
                 => playerPos' = Point(playerPos.x + Displacement(d).x,
                                       playerPos.y + Displacement(d).y)
     /\ movePatterns'.up + movePatterns'.down + movePatterns'.left + movePatterns'.right
          = moveCount' + wallCollisions']_vars

C18_Witness ==
  /\ gameState = "playing" /\ wallCollisions = 1 /\ moveCount = 3
  /\ Cardinality({d \in CountedDirections : movePatterns[d] > 0}) >= 3

\* C19: from startGame on, the Actual Path starts at Start, has one entry per
\* accepted move after it and ends at the player's position; within an episode
\* a step only ever appends to it, one entry with each accepted move.
C19_ActualPathAppendOnly ==
  /\ [](episode > 0 =>
         /\ actualPath # <<>>
         /\ actualPath[1] = startPoint
         /\ Len(actualPath) = moveCount + 1
         /\ actualPath[Len(actualPath)] = playerPos)
  /\ [][episode' = episode =>
          /\ Len(actualPath') = Len(actualPath) + (moveCount' - moveCount)
          /\ moveCount' - moveCount \in {0, 1}
          /\ SubSeq(actualPath', 1, Len(actualPath)) = actualPath]_vars

C19_Witness ==
  /\ gameState = "playing" /\ backtrackCount = 1 /\ Len(actualPath) = 4
  /\ actualPath[2] = actualPath[4]

\* A Path: non-empty, consecutive points at Manhattan distance 1, no point
\* twice in a row.
IsPath(p) ==
  /\ p # <<>>
  /\ \A i \in 1 .. Len(p) - 1 : Adjacent(p[i], p[i + 1]) /\ p[i] # p[i + 1]

\* C20 (as claimed): the optimalPath and the actualPath of every Metrics
\* record are Paths.
C20_RecordPathsArePaths ==
  \A r \in Records : IsPath(r.optimalPath) /\ IsPath(r.actualPath)

\* The destination of a move attempt with `key`, and the classes of attempts.
\* A cell counts as visited when it is on the Actual Path, which starts with
\* the Start cell.
Destination(key) == Point(playerPos.x + KeyDirection(key).x, playerPos.y + KeyDirection(key).y)
Attempt(key) ==
  /\ mounted /\ genFor = "none" /\ gameState = "playing"
  /\ steps' = steps + 1
  /\ movePatterns' = [movePatterns EXCEPT ![DirectionKey(key)] = @ + 1]
OnActualPath(p) == \E i \in DOMAIN actualPath : actualPath[i] = p
IsCollision(key) == maze[Destination(key).y][Destination(key).x] = WALL
IsBacktrack(key) == ~IsCollision(key) /\ OnActualPath(Destination(key))
IsNovelAdvance(key) == ~IsCollision(key) /\ ~OnActualPath(Destination(key))

\* C21: a move attempt whose destination is a non-Wall cell already visited
\* (the Start cell counts from the beginning of the episode) adds exactly 1 to
\* the backtrack count, moves the player to the destination, appends the
\* destination to the Actual Path and leaves the visited set unchanged.
C21_BacktrackEffect ==
  [][\A key \in Keys :
       (Attempt(key) /\ IsBacktrack(key))
         => /\ backtrackCount' = backtrackCount + 1
            /\ playerPos' = Destination(key)
            /\ actualPath' = Append(actualPath, Destination(key))
            /\ visitedCells' = visitedCells]_vars

C21_Witness ==
  /\ gameState = "playing" /\ backtrackCount = 2 /\ Len(actualPath) = 5
  /\ playerPos = startPoint /\ Cardinality(visitedCells) = 3

\* C22: a move attempt whose destination is a non-Wall cell not yet visited
\* appends the destination to the Actual Path, adds exactly that cell to the
\* visited set, adds 1 to the destination's heatmap cell and leaves the
\* backtrack and wall-collision counts unchanged; and every move attempt is
\* exactly one of collision, backtrack and novel advance.
C22_NovelAdvanceEffect ==
  [][\A key \in Keys :
       Attempt(key) =>
         /\ IsNovelAdvance(key)
              => /\ actualPath' = Append(actualPath, Destination(key))
                 /\ visitedCells' = visitedCells \cup {Key(Destination(key).x, Destination(key).y)}
                 /\ Cardinality(visitedCells') = Cardinality(visitedCells) + 1
                 /\ heatmap' = [heatmap EXCEPT ![Destination(key).y][Destination(key).x] = @ + 1]
                 /\ UNCHANGED <<backtrackCount, wallCollisions>>
         /\ Cardinality({c \in {"collision", "backtrack", "advance"} :
                           \/ c = "collision" /\ wallCollisions' = wallCollisions + 1
                                /\ UNCHANGED <<moveCount, backtrackCount>>
                           \/ c = "backtrack" /\ backtrackCount' = backtrackCount + 1
                                /\ moveCount' = moveCount + 1 /\ UNCHANGED wallCollisions
                           \/ c = "advance" /\ moveCount' = moveCount + 1
                                /\ UNCHANGED <<backtrackCount, wallCollisions>>}) = 1]_vars

C22_Witness ==
  /\ gameState = "playing" /\ backtrackCount = 0 /\ wallCollisions = 0
  /\ Cardinality(visitedCells) = 4 /\ Len(actualPath) = 4

\* A breadth-first search that keeps, for each cell, the cell it was first
\* discovered from, and builds the path backwards from the end: the same
\* neighbour order (up, down, left, right), the same first-in first-out
\* frontier and the same tests as findOptimalPath.
NeighbourOrder == <<Point(0, -1), Point(0, 1), Point(-1, 0), Point(1, 0)>>

RECURSIVE PredecessorExplore(_, _, _, _, _, _)
PredecessorExplore(m, p, i, queue, visited, pred) ==
  IF i > Len(NeighbourOrder) THEN [threw |-> FALSE, queue |-> queue, visited |-> visited, pred |-> pred]
  ELSE LET n == Point(p.x + NeighbourOrder[i].x, p.y + NeighbourOrder[i].y)
           key == Key(n.x, n.y)
           cell == CellRead(m, n.x, n.y)
       IN  IF ~(n.x >= 0 /\ n.x < MAZE_SIZE /\ n.y >= 0 /\ n.y < MAZE_SIZE)
             THEN PredecessorExplore(m, p, i + 1, queue, visited, pred)
           ELSE IF cell = "TypeError"
             THEN [threw |-> TRUE, queue |-> queue, visited |-> visited, pred |-> pred]
           ELSE IF cell # WALL /\ key \notin visited
             THEN PredecessorExplore(m, p, i + 1, Append(queue, n), visited \cup {key},
                                     pred \cup {[cell |-> n, from |-> p]})
           ELSE PredecessorExplore(m, p, i + 1, queue, visited, pred)

RECURSIVE PathBack(_, _, _)
PathBack(pred, start, p) ==
  IF p = start THEN <<start>>
  ELSE Append(PathBack(pred, start, (CHOOSE e \in pred : e.cell = p).from), p)

RECURSIVE PredecessorLoop(_, _, _, _, _, _)
PredecessorLoop(m, start, end, queue, visited, pred) ==
  IF queue = <<>> THEN [threw |-> FALSE, path |-> <<>>]
  ELSE IF Head(queue) = end THEN [threw |-> FALSE, path |-> PathBack(pred, start, end)]
  ELSE LET r == PredecessorExplore(m, Head(queue), 1, Tail(queue), visited, pred)
       IN  IF r.threw THEN [threw |-> TRUE, path |-> <<>>]
           ELSE PredecessorLoop(m, start, end, r.queue, r.visited, r.pred)

PredecessorSearch(m, start, end) ==
  PredecessorLoop(m, start, end, <<start>>, {Key(start.x, start.y)}, {})

\* C23: findOptimalPath returns exactly what the predecessor-recording search
\* returns, for every grid and every pair of endpoints.
C23_SameAsPredecessorSearch ==
  findResult # <<>> => findResult[1] = PredecessorSearch(grid, findStart, findEnd)

\* A grid with two shortest paths between the endpoints: the tie is broken
\* by the exploration order (down before right).
C23_Witness ==
  /\ findResult # <<>> /\ MAZE_SIZE = 3 /\ DOMAIN grid = 0 .. 2
  /\ \A p \in GridPoints(grid) : grid[p.y][p.x] = PATH
  /\ findStart = Point(0, 0) /\ findEnd = Point(1, 1)
  /\ findResult[1].path = <<Point(0, 0), Point(0, 1), Point(1, 1)>>

\* C24: in the Metrics record of an episode that ended by reaching the Exit
\* the Actual Path has at least as many cells as the Optimal Path.
C24_ActualNotShorterThanOptimal ==
  \A r \in Records : r.via = "exit" => Len(r.actualPath) >= Len(r.optimalPath)

C24_Witness ==
  \E r \in Records :
    /\ r.via = "exit" /\ r.optimalPath # <<>>
    /\ Len(r.actualPath) = Len(r.optimalPath) + 2

\* The records of the current episode, for which the Recorder's variables are
\* those of the episode the record describes.
CurrentRecords == {r \in Records : r.episode = episode}

\* C25 (as claimed): the Metrics record built when the Exit is reached shows
\* the Recorder after the final move: totalMoves is the accepted-move count,
\* pathLength the length of actualPath, optimalPathLength the length of
\* optimalPath, movementPatterns sums to totalMoves + wallCollisions, and
\* heatmap is the Recorder's heatmap.
C25_ExitRecordIsSnapshot ==
  \A r \in CurrentRecords :
    r.via = "exit" =>
      /\ r.totalMoves = moveCount
      /\ r.pathLength = Len(r.actualPath)
      /\ r.optimalPathLength = Len(r.optimalPath)
      /\ r.movementPatterns.up + r.movementPatterns.down + r.movementPatterns.left
           + r.movementPatterns.right = r.totalMoves + r.wallCollisions
      /\ r.heatmap = heatmap

\* C26 (as claimed): the first half of the two-phase split is the moves before
\* the midpoint of the episode's total move count, so the two halves differ by
\* at most one move.
C26_SplitAtMidpoint ==
  \A r \in CurrentRecords :
    LET first == firstHalfMetrics.moves
        second == r.totalMoves - first
    IN  second - first \in {-1, 0, 1}

\* C27: in every Metrics record, a half of the split that has no moves has
\* speed 0 and accuracy 0.  The first half is the moves up to the snapshot
\* (none when no snapshot was taken), the second half the moves after it.
C27_EmptyHalfReportsZero ==
  \A r \in CurrentRecords :
    /\ firstHalfMetrics.moves = 0
         => r.firstHalfSpeed = Zero /\ r.firstHalfAccuracy = Zero
    /\ r.totalMoves - firstHalfMetrics.moves = 0
         => r.secondHalfSpeed = Zero /\ r.secondHalfAccuracy = Zero
    /\ \A q \in {r.firstHalfSpeed, r.firstHalfAccuracy, r.secondHalfSpeed, r.secondHalfAccuracy} :
         q.den # 0

\* A timeout before any move: both halves are empty.
C27_Witness ==
  \E r \in CurrentRecords :
    /\ r.via = "nextGame" /\ r.totalMoves = 0
    /\ r.firstHalfSpeed = Zero /\ r.secondHalfSpeed = Zero /\ r.secondHalfAccuracy = Zero

\* C28: for every odd side from 5 on and every outcome of the shuffles the
\* carve terminates and a Grid is returned; every cell carvePath is called on
\* was a Wall until then (it is opened once), and in the returned Grid every
\* interior odd-coordinate cell is open.
C28_GenerationTotal ==
  /\ <>MazeReturned
  /\ [][Len(carveStack') > Len(carveStack)
          => LET c == carveStack'[Len(carveStack')]
             IN  genMaze[c.y][c.x] = WALL /\ genMaze'[c.y][c.x] = PATH]_vars
  /\ [](MazeReturned => \A a \in LatticeNodes : maze[a.y][a.x] # WALL)

C28_Witness ==
  MazeReturned /\ MAZE_SIZE = 7 /\ maze[1][2] = WALL /\ maze[2][1] = PATH /\ maze[5][4] = PATH

\* C29: outside startGame no step changes the Grid or the Optimal Path: not
\* a move attempt of any class, not a timer tick, not a completion.
C29_GridAndOptimalPathFrozen ==
  [][(genFor = "none" /\ genFor' = "none") => UNCHANGED <<maze, optimalPath>>]_vars

C29_Witness ==
  /\ gameState = "playing" /\ timeLeft = 1
  /\ moveCount = 3 /\ backtrackCount = 1 /\ wallCollisions = 1
  /\ optimalPath # <<>> /\ IsWalk(maze, optimalPath)

\* C30: when startGame has run, the position is Start, the Actual Path is
\* [Start], the visited set is {Start}, the move, collision and backtrack
\* counts and the four direction counters are 0, the heatmap is all zeros, the
\* first-half snapshot is zeroed, the time left is the full budget, and the
\* Optimal Path is a shortest walk from Start to the Exit of the new Grid.
C30_FreshEpisode ==
  [][(genFor = "start" /\ genFor' = "none") =>
       /\ playerPos' = Point(1, 1)
       /\ actualPath' = <<Point(1, 1)>>
       /\ visitedCells' = {<<"1", ",", "1">>}
       /\ moveCount' = 0 /\ wallCollisions' = 0 /\ backtrackCount' = 0
       /\ \A d \in CountedDirections : movePatterns'[d] = 0
       /\ DOMAIN heatmap' = 0 .. MAZE_SIZE - 1
       /\ \A y \in 0 .. MAZE_SIZE - 1 : \A x \in 0 .. MAZE_SIZE - 1 : heatmap'[y][x] = 0
       /\ firstHalfMetrics'.moves = 0 /\ firstHalfMetrics'.collisions = 0
       /\ firstHalfMetrics'.time = 0
       /\ timeLeft' = MaxTime
       /\ gameState' = "playing"
       /\ optimalPath' # <<>>
       /\ optimalPath'[1] = Point(1, 1)
       /\ optimalPath'[Len(optimalPath')] = Point(MAZE_SIZE - 2, MAZE_SIZE - 2)
       /\ IsWalk(maze', optimalPath')
       /\ Len(optimalPath') = Distance(maze', Point(1, 1), Point(MAZE_SIZE - 2, MAZE_SIZE - 2)) + 1]_vars

\* A second episode just started, after moves were made in the first.
C30_Witness ==
  /\ episode = 2 /\ genFor = "none" /\ gameState = "playing"
  /\ steps >= 3 /\ moveCount = 0 /\ wallCollisions = 0
  /\ actualPath = <<startPoint>> /\ timeLeft = MaxTime

\* C31: while the component is not in the playing state (before the first
\* start, after the Exit, after the timeout), every step other than a call of
\* startGame -- a key press among them -- leaves the position, the Actual
\* Path, the visited set, the heatmap, every counter and the game state as
\* they were.
C31_IgnoredOutsidePlay ==
  [][(mounted /\ genFor = "none" /\ gameState # "playing" /\ episode' = episode)
       => UNCHANGED <<recorderVars, gameState>>]_vars

\* An episode that ended away from the Start cell, with moves counted, and
\* whose component is still on screen to receive keys.
C31_Witness ==
  /\ mounted /\ genFor = "none" /\ gameState = "gameOver"
  /\ playerPos # startPoint /\ moveCount >= 2 /\ wallCollisions >= 1

\* The cells of the outer ring of a square grid of side n.
BorderRing(n) == {p \in {Point(px, py) : px \in 0 .. n - 1, py \in 0 .. n - 1} :
                    p.x \in {0, n - 1} \/ p.y \in {0, n - 1}}

\* C32: whenever the component shows a generated grid, the outer ring of the
\* grid is all Wall, the player stands on a cell that is not a Wall and
\* whose coordinates are within 1 .. N-2, and so each of the four cells
\* handleMove may read next lies inside 0 .. N-1.
C32_PlayerInsideBorder ==
  MazeReturned =>
    /\ \A p \in BorderRing(MAZE_SIZE) : maze[p.y][p.x] = WALL
    /\ playerPos.x \in 1 .. MAZE_SIZE - 2 /\ playerPos.y \in 1 .. MAZE_SIZE - 2
    /\ maze[playerPos.y][playerPos.x] # WALL
    /\ \A key \in Keys : /\ Destination(key).x \in 0 .. MAZE_SIZE - 1
                         /\ Destination(key).y \in 0 .. MAZE_SIZE - 1

\* The player has moved and stands next to the outer ring, away from the
\* Start cell, after an attempt into the ring was refused.
C32_Witness ==
  /\ MazeReturned /\ gameState = "playing"
  /\ playerPos.x = MAZE_SIZE - 2 /\ moveCount >= 2 /\ wallCollisions >= 1
  /\ movePatterns.right >= 3

\* The safety half of C33: the remaining time stays within 0 .. the budget;
\* within an episode it changes only while playing and only by one downwards;
\* the change that finds it at 1 or less leaves 0 and the state gameOver; in
\* gameOver it does not change.
TimerCountsDown ==
  /\ [](timeLeft \in 0 .. MaxTime)
  /\ [][episode' = episode =>
          /\ timeLeft' # timeLeft =>
                gameState = "playing" /\ timeLeft >= 1 /\ timeLeft' = timeLeft - 1
          /\ (timeLeft' # timeLeft /\ timeLeft <= 1) =>
                timeLeft' = 0 /\ gameState' = "gameOver"
          /\ gameState = "gameOver" => timeLeft' = timeLeft]_vars

\* C33: the remaining time counts down by one per timer tick and never goes
\* below 0, the tick that finds it at 1 or less sets it to 0 and ends the
\* episode, the timer is still in gameOver, and under fair timer ticks an
\* episode that is playing eventually reaches gameOver.
C33_TimerEndsEveryEpisode ==
  /\ TimerCountsDown
  /\ (gameState = "playing") ~> (gameState = "gameOver")

\* C34: every call of onComplete hands over a record of the episode the
\* component is in at the time of the call; the record of an episode that
\* startGame has since replaced is never handed over.
C34_NoStaleCompletion ==
  [][completions' = completions + 1 => lastMetrics'[1].episode = episode]_vars

\* C35: in the game series the total score is the sum of the six per-game
\* scores, whatever completion callbacks have arrived.
C35_TotalIsSumOfScores == totalScore = SumOver(gameScores, Games)

\* C36: the current game changes only to the next game of the fixed order
\* (a restart of the series and the submission of the user form aside),
\* every completion callback advances it by exactly one position, and every
\* game before the current one is marked completed.
C36_OrderedAdvance ==
  /\ [][(currentGame' # currentGame /\ userData' = userData)
          => IndexOf(currentGame') = IndexOf(currentGame) + 1]_vars
  /\ [][callbacks' = callbacks + 1
          => IndexOf(currentGame') = IndexOf(currentGame) + 1]_vars
  /\ [](\A g \in Games : IndexOf(g) < IndexOf(currentGame) => gameStates[g])

\* The disks of a tower, as a set.
DisksOf(t) == {t[k] : k \in DOMAIN t}

\* C37: in the puzzle each tower's disks are strictly decreasing in size
\* from bottom to top and the three towers together hold the disks 1, 2 and
\* 3 once each; a step that counts an invalid move leaves the towers, the
\* move count and the per-pair move counts as they were and raises the
\* invalid-move count by exactly one.
C37_TowersWellFormed ==
  /\ [](/\ \A i \in 0 .. 2 : \A k \in 1 .. Len(towers[i]) - 1 :
                                  towers[i][k] > towers[i][k + 1]
        /\ DisksOf(towers[0]) \cup DisksOf(towers[1]) \cup DisksOf(towers[2]) = {1, 2, 3}
        /\ Len(towers[0]) + Len(towers[1]) + Len(towers[2]) = 3)
  /\ [][(clicks' = clicks + 1 /\ invalidMoves' # invalidMoves)
          => /\ invalidMoves' = invalidMoves + 1
             /\ UNCHANGED <<towers, moves, movePattern, score, hanoiState, hanoiTimeLeft>>]_vars

\* A move onto a smaller disk has been refused after legal moves had stacked
\* disk 1 on disk 2.
C37_Witness ==
  /\ hanoiState = "playing" /\ invalidMoves = 1 /\ moves = 4
  /\ towers[1] = <<2, 1>> /\ towers[2] = <<3>>
====
